---- MODULE Spec2Model ----
(***************************************************************************)
(* Model of the paginated fetch operations of boardgamegeek/api.py:        *)
(* BoardGameGeekNetworkAPI.guild, .user and .plays, and of the retrying    *)
(* fetch get_parsed_xml_response they call.                                *)
(*                                                                         *)
(* A behaviour is one client (constructed with a retry budget) performing  *)
(* one operation.  A step runs the operation from the arrival of one HTTP  *)
(* response up to the next HTTP request it issues, or up to its return.    *)
(* The server is the environment: every attempt is answered by 202         *)
(* ("processing"), by a timeout, by a non-XML body or by an XML page whose *)
(* content it chooses freely.                                              *)
(*                                                                         *)
(* Lists (guild members, buddies, guilds, plays) are represented by their  *)
(* lengths: the code only appends to them and reads len().  For User and   *)
(* Plays, user.total_buddies, user.total_guilds and len(plays) are taken   *)
(* to count the add_buddy, add_guild and add_play calls made.              *)
(*                                                                         *)
(* get_parsed_xml_response (boardgamegeek/utils.py) is modelled from the   *)
(* specification: a retry budget of `retries` attempts shared by HTTP 202  *)
(* answers and timeouts, a sleep of retry_delay after a 202 answer that    *)
(* leaves budget, and an error raised when the budget is used up.          *)
(***************************************************************************)
EXTENDS Integers, Sequences, FiniteSets, TLC

\* ------------------------------------------------------------------ bounds
MaxTotal == 3          \* largest expected total page 1 of guild or plays reports
MaxUserTotal == 2      \* largest total page 1 of user reports for a list
MaxPageItems == 2      \* largest number of items one response carries
MaxRetries == 2        \* largest retry budget a client is constructed with
MaxPage == 2 * MaxTotal + 2   \* cap on the page counter (never reached by the code)
MaxMatches == 2        \* largest number of items a search response carries
NumCallers == 2        \* threads that use the session of one client
MaxRpm == 2            \* largest requests_per_minute a client is constructed with
MaxTtl == 1            \* largest ttl of the cache, in clock ticks
MaxTime == 2           \* last clock tick
MaxGets == 3           \* largest number of GETs asked of the session

\* --------------------------------------------------------------- constants
\* Default of get_parsed_xml_response's retries argument, which user relies on
\* for later pages (utils.py is not among the sources at hand; 3 is the value
\* of the client's own default and of the specification's retry scenario).
DefaultRetries == 3
NoPage == 0            \* the first request carries no "page" parameter
NoTotal == -1          \* page 1 carries no expected total (no count / total attribute)
NoYearKey == -300000   \* the key "recent" gives a search result whose year is None
\* The key "best-rank" gives a record whose rank is None: 10000000000 in the
\* code, a number no rank reaches; the largest integer of the checker stands
\* for it.
NoRankKey == 2147483647

Ops == {"guild", "user", "plays"}

\* The operations that make one fetch, and those that look a game up.
SingleOps == {"hot_items", "collection", "search"}
GameOps == {"game", "get_game_id"}

\* The operations that search for a name and fetch the records of matches.
LookupOps == GameOps \cup {"games"}

HOT_ITEM_CHOICES == {"boardgame", "rpg", "videogame", "boardgameperson", "rpgperson",
                     "boardgamecompany", "rpgcompany", "videogamecompany"}

\* The search types search accepts in a list.
SEARCH_TYPES == {"rpgitem", "videogame", "boardgame", "boardgameexpansion"}

\* The values of choose _get_game_id accepts.
CHOICES == {"first", "recent", "best-rank"}

VARIABLES
    retries,        \* self._retries
    op,             \* the operation being performed ("" before the call)
    progress,       \* TRUE iff a progress callback was supplied
    pc,             \* "idle", "http" (an HTTP GET awaits its response), "done"
    outcome,        \* "running", "returned", "none" (returned None), "raised"
    err,            \* the exception raised to the caller ("none" if none)
    retr,           \* remaining retry budget of the fetch in progress
    attempts,       \* HTTP attempts made by the current (or last) fetch
    delays,         \* sleeps of retry_delay made by the current (or last) fetch
    timeouts,       \* attempts of the current (or last) fetch that timed out
    processing,     \* attempts of the current (or last) fetch answered by HTTP 202
    count,          \* guild/plays: count; user: max_items_to_fetch
    total_buddies,  \* user: total_buddies
    total_guilds,   \* user: total_guilds
    members,        \* len(kwargs["members"])
    buddies,        \* user.total_buddies
    guilds,         \* user.total_guilds
    plays,          \* len(plays)
    page,           \* the local variable page
    requests,       \* the fetches issued so far: <<[page, retries], ...>>
    consumed,       \* number of page responses consumed so far
    progressLog,    \* the calls made to the progress callback: <<cur, total>>
    pageSize,       \* page size the first page exhibits (items on page 1)
    honours,        \* TRUE iff every page so far is what a paginating server sends
    noTotal,        \* TRUE iff page 1 carried no expected total
    guard,          \* TRUE iff the loop was left by its break (a page added nothing)
    truncLog,       \* TRUE iff a log record tells that the loop was left by its break
    twice,          \* TRUE iff an item the server had sent before was added again
    run,            \* 1 during the first call of the operation, 2 during a repeated one
    server,         \* the pages a server that answers every call alike sends
    first,          \* what the first call of the operation gave, once it is repeated
    args,           \* the arguments of the call
    stage,          \* game, get_game_id, games: the fetch in flight ("search", "rank",
                    \* "thing", and "each" for the records games fetches)
    matches,        \* len(res), the matches search returned
    game_data,      \* best-rank, games: the records fetched, in the order of the fetches
    game_none,      \* best-rank, games: TRUE iff game_data holds a None
    res,            \* the item elements of the search response, in order
    chosen,         \* the place in res of the match whose id is chosen (0: none)
    fetching,       \* the place in res of the match whose record is being fetched
    answer,         \* how the last fetch of a lookup was answered ("" if not yet)
    now,            \* the clock, in ticks
    rpm,            \* requests_per_minute
    cache,          \* the cache the client was constructed with: [uri, ttl]
    stamps,         \* per adapter, the timestamps its limiter has recorded
    store,          \* the cache: per request identity, [body, expires]
    cpc,            \* per caller: "idle", "acquire" (blocked in the limiter), "http"
    ckey,           \* per caller, the request it asks the session for
    admitted,       \* the instants at which a limiter admitted a request
    stored,         \* per request, when its last answer came from the network
    netCalls,       \* number of HTTP GETs sent to the network
    gets,           \* number of GETs asked of the session
    hits,           \* number of GETs the cache answered
    last,           \* the latest cache lookup: [key, hit, age of the last answer]
    result          \* the latest answer of the session: [key, body, hit]

ctlVars == <<pc, outcome, err>>
callVars == <<op, progress, args>>
transportVars == <<retr, attempts, delays, timeouts, processing>>
aggVars == <<count, total_buddies, total_guilds, members, buddies, guilds, plays, page>>
histVars == <<consumed, progressLog, pageSize, honours, noTotal>>
endVars == <<guard, truncLog, twice>>
runVars == <<run, server, first>>
gameVars == <<stage, matches, game_data, game_none, res, chosen, fetching, answer>>
netVars == <<now, rpm, cache, stamps, store, cpc, ckey, admitted, stored, netCalls,
            gets, hits, last, result>>
vars == <<retries, op, progress, pc, outcome, err, retr, attempts, delays, timeouts, processing,
          count, total_buddies, total_guilds, members, buddies, guilds, plays, page,
          requests, consumed, progressLog, pageSize, honours, noTotal,
          guard, truncLog, twice, run, server, first,
          args, stage, matches, game_data, game_none, res, chosen, fetching, answer,
          now, rpm, cache, stamps, store, cpc, ckey, admitted, stored, netCalls,
          gets, hits, last, result>>

Max(a, b) == IF a >= b THEN a ELSE b
Min(a, b) == IF a <= b THEN a ELSE b

\* The page a request asks for: a request without "page" asks for page 1.
PageOf(p) == IF p = NoPage THEN 1 ELSE p

\* ------------------------------------------------------------ server pages
\* First page of guild: valid is "the root carries the name attribute",
\* total is the count attribute of the members element (NoTotal: there is no
\* members element with a count) and n the number of member elements.
Page1Bodies == [valid : BOOLEAN, total : NoTotal..MaxTotal, n : 0..MaxPageItems]

\* First page of plays: total is the integer total attribute of the root
\* (NoTotal: the root has none) and n the number of play elements.
PlaysPage1Bodies == [total : NoTotal..MaxTotal, n : 0..MaxPageItems]

\* Later pages of guild and plays: the total they carry is never read; seen
\* tells that the page repeats items an earlier page of the call has sent.
LaterBodies == [total : 0..MaxTotal, n : 0..MaxPageItems, seen : BOOLEAN]

\* First page of user: valid is "name and integer id present"; tb and tg
\* are the total attributes of the buddies and guilds elements (0 also when
\* the element is missing, NoTotal when it is there without a total).
UserPage1Bodies ==
    {[valid |-> FALSE, tb |-> 0, tg |-> 0, nb |-> 0, ng |-> 0]}
    \cup [valid : {TRUE}, tb : NoTotal..MaxUserTotal, tg : NoTotal..MaxUserTotal,
          nb : 0..MaxPageItems, ng : 0..MaxPageItems]

\* Later pages of user: buddy and guild elements found anywhere in the page.
UserLaterBodies == [nb : 0..MaxPageItems, ng : 0..MaxPageItems, seen : BOOLEAN]

\* A page of n items can repeat items sent before only if it has items and
\* len items, at least as many, were sent before.
CanRepeat(n, len) == n > 0 /\ n <= len

\* Items a server with page size s and t items in all sends on page p.
HonestItems(s, t, p) == Min(s, Max(0, t - (p - 1) * s))

\* ------------------------------------------------------------- arguments
\* Arguments are represented by what the code asks of them.  Strings are ""
\* (or None: both are false) or not; ids are "none" (None or 0), "int"
\* (int() accepts it) or "nonint"; dates are "none", "date" (it has
\* isoformat) or "nondate" (a true value without isoformat); search_type is
\* None, a list of type names, or a number (the bitmask).
NoSearchType == [kind |-> "none", types |-> <<>>]

NoArgs == [guild_id |-> "na", name |-> "na", game_id |-> "na", min_date |-> "na",
           max_date |-> "na", item_type |-> "na", user_name |-> "na", query |-> "na",
           search_type |-> NoSearchType, choose |-> "na"]

Strings == {"", "x"}
DateArgs == {"none", "date", "nondate"}
SearchTypeArgs ==
    {NoSearchType,
     [kind |-> "mask", types |-> <<>>],
     [kind |-> "list", types |-> <<>>],
     [kind |-> "list", types |-> <<"boardgame", "rpgitem">>],
     [kind |-> "list", types |-> <<"boardgame", "boardgames">>]}

\* The arguments operation o is called with.
ArgsOf(o) ==
    CASE o = "guild" -> {[NoArgs EXCEPT !.guild_id = g] : g \in {"int", "nonint"}}
      [] o = "user" -> {[NoArgs EXCEPT !.name = n] : n \in Strings}
      [] o = "plays" ->
            {[NoArgs EXCEPT !.name = n, !.game_id = g, !.min_date = d, !.max_date = e] :
                n \in Strings, g \in {"none", "int", "nonint"}, d \in DateArgs, e \in DateArgs}
      [] o = "hot_items" ->
            {[NoArgs EXCEPT !.item_type = t] : t \in {"boardgame", "videogamecompany", "boardgames"}}
      [] o = "collection" -> {[NoArgs EXCEPT !.user_name = n] : n \in Strings}
      [] o = "search" ->
            {[NoArgs EXCEPT !.query = q, !.search_type = t] : q \in Strings, t \in SearchTypeArgs}
      [] o = "game" ->
            {[NoArgs EXCEPT !.name = n, !.game_id = g, !.choose = c] :
                n \in Strings, g \in {"none", "int"}, c \in CHOICES \cup {"best"}}
      [] o = "get_game_id" ->
            {[NoArgs EXCEPT !.name = n, !.choose = c] : n \in Strings, c \in CHOICES \cup {"best"}}
      [] o = "games" -> {[NoArgs EXCEPT !.name = n] : n \in Strings}

\* guild raises BoardGameGeekError: int(guild_id) fails.
GuildRejects(a) == a.guild_id # "int"

\* user raises BoardGameGeekError: not name.
UserRejects(a) == a.name = ""

\* Variant: plays without the check "if name and game_id".
PlaysRejects_NoBoth(a) ==
    \/ a.name = "" /\ a.game_id # "int"
    \/ a.min_date = "nondate"
    \/ a.max_date = "nondate"

\* plays raises BoardGameGeekError: neither name nor game_id, both, a
\* game_id int() refuses, or a min_date / max_date without isoformat.
PlaysRejects(a) ==
    \/ a.name = "" /\ a.game_id = "none"
    \/ a.name # "" /\ a.game_id # "none"
    \/ a.name = "" /\ a.game_id # "int"
    \/ a.min_date = "nondate"
    \/ a.max_date = "nondate"

\* hot_items raises BoardGameGeekError: item_type not in HOT_ITEM_CHOICES.
HotItemsRejects(a) == a.item_type \notin HOT_ITEM_CHOICES

\* collection raises BoardGameGeekError: not user_name.
CollectionRejects(a) == a.user_name = ""

\* search raises BoardGameGeekError: not query, or a list naming a type that
\* is none of SEARCH_TYPES (a number is never refused).
SearchRejects(query, search_type) ==
    \/ query = ""
    \/ /\ search_type.kind = "list"
       /\ \E i \in 1..Len(search_type.types) : search_type.types[i] \notin SEARCH_TYPES

\* _get_game_id raises BoardGameGeekError: choose is none of CHOICES, or the
\* search it then makes for name refuses the name.
GetGameIdRejects(name, choose) ==
    \/ choose \notin CHOICES
    \/ SearchRejects(name, [kind |-> "list", types |-> <<"boardgame">>])

\* game raises BoardGameGeekError: neither name nor game_id, or get_game_id,
\* called when game_id is None, refuses name or choose.
GameRejects(a) ==
    \/ a.name = "" /\ a.game_id = "none"
    \/ a.game_id = "none" /\ GetGameIdRejects(a.name, a.choose)

\* games raises BoardGameGeekError: the search it makes refuses the name.
GamesRejects(a) ==
    SearchRejects(a.name, [kind |-> "list", types |-> <<"boardgame", "boardgameexpansion">>])

\* Operation o raises BoardGameGeekError for arguments a before it fetches.
Rejects(o, a) ==
    CASE o = "guild" -> GuildRejects(a)
      [] o = "user" -> UserRejects(a)
      [] o = "plays" -> PlaysRejects(a)
      [] o = "hot_items" -> HotItemsRejects(a)
      [] o = "collection" -> CollectionRejects(a)
      [] o = "search" -> SearchRejects(a.query, a.search_type)
      [] o = "game" -> GameRejects(a)
      [] o = "get_game_id" -> GetGameIdRejects(a.name, a.choose)
      [] o = "games" -> GamesRejects(a)

\* The first fetch of game, get_game_id and games: game with a game_id
\* fetches the thing, and otherwise the name is searched for.
FirstStage(o, a) ==
    IF o \notin LookupOps THEN ""
    ELSE IF o = "game" /\ a.game_id # "none" THEN "thing" ELSE "search"

\* ---------------------------------------------------------- the session
\* The threads that call the session, the requests they ask for (a request
\* is its url and parameters) and the adapters mounted (one per caller at
\* most).
Callers == 1..NumCallers
Keys == {"k1", "k2"}
Adapters == 1..NumCallers

\* The rolling window of the limiter, 60 seconds, in clock ticks of 30 s.
Window == 2

Never == -1
NoEntry == [body |-> "", expires |-> Never]
NoCache == [uri |-> "", ttl |-> 0]
NoLookup == [key |-> "", hit |-> FALSE, age |-> Never]
NoResult == [key |-> "", body |-> "", hit |-> FALSE]

\* The values of the cache argument: none, or a URI with a ttl.
CacheArgs == {NoCache} \cup [uri : {"memory"}, ttl : 1..MaxTtl]

\* The body the server answers request k with.
Content(k) == k

\* No thread has used the session yet.
SessionIdle ==
    /\ now = 0
    /\ stamps = [a \in Adapters |-> <<>>]
    /\ store = [k \in Keys |-> NoEntry]
    /\ cpc = [c \in Callers |-> "idle"]
    /\ ckey = [c \in Callers |-> ""]
    /\ admitted = <<>>
    /\ stored = [k \in Keys |-> Never]
    /\ netCalls = 0
    /\ gets = 0
    /\ hits = 0
    /\ last = NoLookup
    /\ result = NoResult

\* The operation has not been repeated: there is no first call to tell of.
NoRun == [outcome |-> "", acc |-> <<>>, log |-> <<>>, fetches |-> 0]

\* No server is tied to its answers: every response is chosen freely.
NoServer == [op |-> "", p1 |-> <<>>, p2 |-> <<>>, rest |-> <<>>]

\* No operation has been called yet.
NotCalled ==
    /\ op = ""
    /\ progress = FALSE
    /\ pc = "idle"
    /\ outcome = "running"
    /\ err = "none"
    /\ retr = 0
    /\ attempts = 0
    /\ delays = 0
    /\ timeouts = 0
    /\ processing = 0
    /\ count = 0
    /\ total_buddies = 0
    /\ total_guilds = 0
    /\ members = 0
    /\ buddies = 0
    /\ guilds = 0
    /\ plays = 0
    /\ page = 0
    /\ requests = <<>>
    /\ consumed = 0
    /\ progressLog = <<>>
    /\ pageSize = 0
    /\ honours = TRUE
    /\ noTotal = FALSE
    /\ guard = FALSE
    /\ truncLog = FALSE
    /\ twice = FALSE
    /\ run = 1
    /\ first = NoRun
    /\ args = NoArgs
    /\ stage = ""
    /\ matches = 0
    /\ game_data = <<>>
    /\ game_none = FALSE
    /\ res = <<>>
    /\ chosen = 0
    /\ fetching = 0
    /\ answer = ""

\* A client constructed with some retries; in the behaviours of the
\* operations the session is left at rest.
Init ==
    /\ retries \in 1..MaxRetries
    /\ NotCalled
    /\ rpm = MaxRpm
    /\ cache = NoCache
    /\ SessionIdle
    /\ server = NoServer

\* A client constructed with some requests_per_minute and some cache, whose
\* session several threads are about to use.
NetInit ==
    /\ retries = MaxRetries
    /\ NotCalled
    /\ rpm \in 1..MaxRpm
    /\ cache \in CacheArgs
    /\ SessionIdle
    /\ server = NoServer

\* ------------------------------------------------- get_parsed_xml_response
\* The call get_parsed_xml_response(..., retries=r) asking for page p:
\* the fetch starts with a full retry budget and its first GET is issued.
BeginFetch(p, r) ==
    /\ requests' = Append(requests, [page |-> p, retries |-> r])
    /\ retr' = r
    /\ attempts' = 0
    /\ delays' = 0
    /\ timeouts' = 0
    /\ processing' = 0
    /\ pc' = "http"

\* An HTTP GET awaits its response (and the page counter is within the cap).
AwaitingResponse == pc = "http" /\ page <= MaxPage

\* The retry budget is used up.
Exhausted(budget) == budget <= 0

\* The fetch in progress is the first one of the operation.
FirstFetch == Len(requests) = 1

\* Variant: one retry more than the client was given.
FirstFetchRetries_Extra(o, r) == r + 1

\* retries passed to the first fetch of an operation.
FirstFetchRetries(o, r) == r

\* Variant: no operation passes retries for a later page.
LaterFetchRetries_Default(o, r) == DefaultRetries

\* retries passed to the fetch of a later page: user passes none.
LaterFetchRetries(o, r) == IF o = "user" THEN DefaultRetries ELSE r

\* Variant: the first fetch is not guarded against a body that is not XML.
FirstPageHandler_Raise(e) == "raised"

\* Variant: the first fetch is guarded by a bare except that returns None.
FirstPageHandler_CatchAll(e) == "none"

\* What the operation does with exception e of its first fetch.
FirstPageHandler(e) == IF e = "nonxml" THEN "none" ELSE "raised"

\* Variant: the error of a later page is caught and the partial result returned.
LaterPageHandler_Swallow(e) == "returned"

\* What the operation does with exception e of the fetch of a later page.
LaterPageHandler(e) == "raised"

\* The fetch raises e: the operation ends.
Fail(e) ==
    LET out == IF FirstFetch THEN FirstPageHandler(e) ELSE LaterPageHandler(e)
    IN  /\ pc' = "done"
        /\ outcome' = out
        /\ err' = IF out = "raised" THEN e ELSE "none"

\* The operation raises e itself.
Raise(e) ==
    /\ pc' = "done"
    /\ outcome' = "raised"
    /\ err' = e

\* The operation raises e while it reads a response (e is "attribute" for an
\* AttributeError and "key" for a KeyError, which no code catches).
Crash(e) ==
    /\ Raise(e)
    /\ attempts' = attempts + 1
    /\ UNCHANGED <<retr, delays, timeouts, processing, requests>>

\* The operation returns its result (out = "returned") or None (out = "none").
Return(out) ==
    /\ pc' = "done"
    /\ outcome' = out
    /\ err' = "none"
    /\ attempts' = attempts + 1
    /\ UNCHANGED <<retr, delays, timeouts, processing, requests>>

\* progress(cur, total), if a callback was supplied.
CallProgress(log, cur, total) ==
    IF progress THEN Append(log, <<cur, total>>) ELSE log

\* --------------------------------------------------------- the operations
\* Operation o is called with arguments a (and a progress callback iff p):
\* it raises BoardGameGeekError if it refuses a, and issues its first fetch
\* otherwise.
Call(o, p, a) ==
    /\ pc = "idle"
    /\ op' = o
    /\ progress' = p
    /\ args' = a
    /\ IF Rejects(o, a)
       THEN /\ Raise("invalid")
            /\ UNCHANGED <<requests, stage>>
            /\ UNCHANGED transportVars
       ELSE /\ BeginFetch(NoPage, FirstFetchRetries(o, retries))
            /\ stage' = FirstStage(o, a)
            /\ UNCHANGED <<outcome, err>>
    /\ UNCHANGED <<retries, matches, game_data, game_none, res, chosen, fetching, answer>>
    /\ UNCHANGED aggVars
    /\ UNCHANGED histVars
    /\ UNCHANGED netVars
    /\ UNCHANGED endVars
    /\ UNCHANGED runVars

\* --------------------------------------- responses that are not an XML page
\* HTTP 202: one unit of the budget is spent; the fetch raises the retry
\* error if none is left, and otherwise sleeps retry_delay and tries again.
RespProcessing ==
    /\ AwaitingResponse
    /\ attempts' = attempts + 1
    /\ processing' = processing + 1
    /\ retr' = retr - 1
    /\ IF Exhausted(retr')
       THEN Fail("retry") /\ delays' = delays
       ELSE delays' = delays + 1 /\ UNCHANGED ctlVars
    /\ UNCHANGED <<retries, timeouts, requests>>
    /\ UNCHANGED callVars
    /\ UNCHANGED gameVars
    /\ UNCHANGED aggVars
    /\ UNCHANGED histVars
    /\ UNCHANGED netVars
    /\ UNCHANGED endVars
    /\ UNCHANGED runVars

\* The GET times out: one unit of the budget is spent; the fetch raises the
\* timeout error if none is left, and otherwise tries again.
RespTimeout ==
    /\ AwaitingResponse
    /\ attempts' = attempts + 1
    /\ timeouts' = timeouts + 1
    /\ retr' = retr - 1
    /\ IF Exhausted(retr')
       THEN Fail("timeout")
       ELSE UNCHANGED ctlVars
    /\ UNCHANGED <<retries, delays, processing, requests>>
    /\ UNCHANGED callVars
    /\ UNCHANGED gameVars
    /\ UNCHANGED aggVars
    /\ UNCHANGED histVars
    /\ UNCHANGED netVars
    /\ UNCHANGED endVars
    /\ UNCHANGED runVars

\* The body is not XML: the fetch raises BoardGameGeekAPINonXMLError.
RespNonXML ==
    /\ AwaitingResponse
    /\ op \in Ops \cup SingleOps
    /\ attempts' = attempts + 1
    /\ Fail("nonxml")
    /\ UNCHANGED <<retries, retr, delays, timeouts, processing, requests>>
    /\ UNCHANGED callVars
    /\ UNCHANGED gameVars
    /\ UNCHANGED aggVars
    /\ UNCHANGED histVars
    /\ UNCHANGED netVars
    /\ UNCHANGED endVars
    /\ UNCHANGED runVars

\* ------------------------------------------------------------------ guild
\* Variant: the members of a page replace the list instead of extending it.
GuildAppend_Replace(len, n) == n

\* The members of a page are appended to kwargs["members"].
GuildAppend(len, n) == len + n

\* Variant: the list an earlier call has filled is used again.
NewList_Kept(old) == old

\* The length of the list a call starts with: every call makes a new, empty
\* one (kwargs["members"] = [], User(kwargs), Plays(...)), whatever length
\* old an earlier call has left.
NewList(old) == 0

\* Variant: added_member set on every page, empty or not.
AddedMember_Always(n) == TRUE

\* added_member after a page with n member elements.
AddedMember(n) == n > 0

\* Variant: the loop condition with <= for <.
GuildMore_Inclusive(len, cnt) == len <= cnt

\* The loop condition of guild.
GuildMore(len, cnt) == len < cnt

\* Variant: page += 2.
NextPage_Skip(p) == p + 2

\* page += 1
NextPage(p) == p + 1

\* Variant: every operation logs that its loop was left by the break.
TruncationLogged_Always(o, stopped) == stopped

\* A log record tells that operation o left its loop by the break: user
\* writes one, guild and plays break without a word.
TruncationLogged(o, stopped) == o = "user" /\ stopped

\* Page 1 of guild arrives.
GuildFirstPage(b) ==
    /\ AwaitingResponse
    /\ op = "guild"
    /\ FirstFetch
    /\ consumed' = consumed + 1
    /\ IF ~b.valid
       THEN /\ Return("none")
            /\ UNCHANGED <<count, members, page, progressLog, pageSize, honours, noTotal>>
       ELSE IF b.total = NoTotal
       THEN /\ Crash("attribute")
            /\ pageSize' = b.n
            /\ honours' = FALSE
            /\ noTotal' = TRUE
            /\ UNCHANGED <<count, members, page, progressLog>>
       ELSE LET len == GuildAppend(NewList(members), b.n)
            IN  /\ count' = b.total
                /\ members' = len
                /\ progressLog' = CallProgress(progressLog, len, b.total)
                /\ page' = 2
                /\ pageSize' = b.n
                /\ honours' = (b.n <= b.total /\ (b.total > 0 => b.n > 0))
                /\ noTotal' = FALSE
                /\ IF GuildMore(len, b.total)
                   THEN BeginFetch(2, LaterFetchRetries("guild", retries))
                        /\ UNCHANGED <<outcome, err>>
                   ELSE Return("returned")
    /\ UNCHANGED <<retries, total_buddies, total_guilds, buddies, guilds, plays>>
    /\ UNCHANGED callVars
    /\ UNCHANGED gameVars
    /\ UNCHANGED netVars
    /\ UNCHANGED endVars
    /\ UNCHANGED runVars

\* A later page of guild arrives.
GuildNextPage(b) ==
    /\ AwaitingResponse
    /\ op = "guild"
    /\ ~FirstFetch
    /\ b.seen => CanRepeat(b.n, members)
    /\ consumed' = consumed + 1
    /\ LET len == GuildAppend(members, b.n)
       IN  /\ members' = len
           /\ progressLog' = CallProgress(progressLog, len, count)
           /\ page' = NextPage(page)
           /\ honours' = (honours /\ ~b.seen /\ b.n = HonestItems(pageSize, count, page))
           /\ twice' = (twice \/ b.seen)
           /\ guard' = ~AddedMember(b.n)
           /\ truncLog' = TruncationLogged("guild", guard')
           /\ IF AddedMember(b.n) /\ GuildMore(len, count)
              THEN BeginFetch(page', LaterFetchRetries("guild", retries))
                   /\ UNCHANGED <<outcome, err>>
              ELSE Return("returned")
    /\ UNCHANGED <<retries, count, total_buddies, total_guilds, buddies, guilds, plays,
                   pageSize, noTotal>>
    /\ UNCHANGED callVars
    /\ UNCHANGED gameVars
    /\ UNCHANGED runVars
    /\ UNCHANGED netVars

\* ------------------------------------------------------------------- user
\* user.add_buddy / user.add_guild for each of the n elements of a page.
AddBuddies(len, n) == len + n
AddGuilds(len, n) == len + n

\* max_items_to_fetch
MaxItemsToFetch(tb, tg) == Max(tb, tg)

\* Variant: the callback is told the number of buddies.
UserCurrent_Buddies(nb, ng) == nb

\* The first argument of the progress callback in user.
UserCurrent(nb, ng) == Max(nb, ng)

\* The loop condition of user.
UserMore(nb, ng, most) == Max(nb, ng) < most

\* "not added_buddy and not added_guild" is false.
AddedBuddyOrGuild(nb, ng) == nb > 0 \/ ng > 0

\* Page 1 of user arrives.
UserFirstPage(b) ==
    /\ AwaitingResponse
    /\ op = "user"
    /\ FirstFetch
    /\ consumed' = consumed + 1
    /\ IF ~b.valid
       THEN /\ Return("none")
            /\ UNCHANGED <<count, total_buddies, total_guilds, buddies, guilds,
                           page, progressLog, pageSize, honours, noTotal>>
       ELSE IF b.tb = NoTotal \/ b.tg = NoTotal
       THEN /\ Crash("key")
            /\ pageSize' = Max(b.nb, b.ng)
            /\ honours' = FALSE
            /\ noTotal' = TRUE
            /\ UNCHANGED <<count, total_buddies, total_guilds, buddies, guilds,
                           page, progressLog>>
       ELSE LET nb == IF b.tb > 0 THEN AddBuddies(NewList(buddies), b.nb)
                                    ELSE NewList(buddies)
                ng == IF b.tg > 0 THEN AddGuilds(NewList(guilds), b.ng)
                                    ELSE NewList(guilds)
                most == MaxItemsToFetch(b.tb, b.tg)
                size == Max(b.nb, b.ng)
            IN  /\ total_buddies' = b.tb
                /\ total_guilds' = b.tg
                /\ buddies' = nb
                /\ guilds' = ng
                /\ count' = most
                /\ progressLog' = CallProgress(progressLog, UserCurrent(nb, ng), most)
                /\ page' = 2
                /\ pageSize' = size
                /\ honours' = /\ b.nb = Min(size, b.tb)
                              /\ b.ng = Min(size, b.tg)
                              /\ (most > 0 => size > 0)
                /\ noTotal' = FALSE
                /\ IF UserMore(nb, ng, most)
                   THEN BeginFetch(2, LaterFetchRetries("user", retries))
                        /\ UNCHANGED <<outcome, err>>
                   ELSE Return("returned")
    /\ UNCHANGED <<retries, members, plays>>
    /\ UNCHANGED callVars
    /\ UNCHANGED gameVars
    /\ UNCHANGED netVars
    /\ UNCHANGED endVars
    /\ UNCHANGED runVars

\* A later page of user arrives.
UserNextPage(b) ==
    /\ AwaitingResponse
    /\ op = "user"
    /\ ~FirstFetch
    /\ b.seen => /\ b.nb <= buddies
                 /\ b.ng <= guilds
                 /\ b.nb + b.ng > 0
    /\ consumed' = consumed + 1
    /\ LET nb == AddBuddies(buddies, b.nb)
           ng == AddGuilds(guilds, b.ng)
       IN  /\ buddies' = nb
           /\ guilds' = ng
           /\ progressLog' = CallProgress(progressLog, UserCurrent(nb, ng), count)
           /\ page' = NextPage(page)
           /\ twice' = (twice \/ b.seen)
           /\ guard' = ~AddedBuddyOrGuild(b.nb, b.ng)
           /\ truncLog' = TruncationLogged("user", guard')
           /\ honours' = /\ honours
                         /\ ~b.seen
                         /\ b.nb = HonestItems(pageSize, total_buddies, page)
                         /\ b.ng = HonestItems(pageSize, total_guilds, page)
           /\ IF AddedBuddyOrGuild(b.nb, b.ng) /\ UserMore(nb, ng, count)
              THEN BeginFetch(page', LaterFetchRetries("user", retries))
                   /\ UNCHANGED <<outcome, err>>
              ELSE Return("returned")
    /\ UNCHANGED <<retries, count, total_buddies, total_guilds, members, plays,
                   pageSize, noTotal>>
    /\ UNCHANGED callVars
    /\ UNCHANGED gameVars
    /\ UNCHANGED runVars
    /\ UNCHANGED netVars

\* ------------------------------------------------------------------ plays
\* plays.add_play for each of the n play elements of a page.
AddPlays(len, n) == len + n

\* Variant: _add_plays returns True for every page, empty or not.
AddedPlays_Always(n) == TRUE

\* The value _add_plays returns for a page with n play elements.
AddedPlays(n) == n > 0

\* Variant: "while True", the loop is left by the break only.
PlaysMore_NoTest(len, cnt) == TRUE

\* The loop condition of plays.
PlaysMore(len, cnt) == len < cnt

\* Page 1 of plays arrives.
PlaysFirstPage(b) ==
    /\ AwaitingResponse
    /\ op = "plays"
    /\ FirstFetch
    /\ consumed' = consumed + 1
    /\ IF b.total = NoTotal
       THEN /\ Return("none")
            /\ pageSize' = b.n
            /\ honours' = FALSE
            /\ noTotal' = TRUE
            /\ UNCHANGED <<count, plays, page, progressLog>>
       ELSE LET len == AddPlays(NewList(plays), b.n)
            IN  /\ count' = b.total
                /\ plays' = len
                /\ progressLog' = CallProgress(progressLog, len, b.total)
                /\ page' = 2
                /\ pageSize' = b.n
                /\ honours' = (b.n <= b.total /\ (b.total > 0 => b.n > 0))
                /\ noTotal' = FALSE
                /\ IF PlaysMore(len, b.total)
                   THEN BeginFetch(2, LaterFetchRetries("plays", retries))
                        /\ UNCHANGED <<outcome, err>>
                   ELSE Return("returned")
    /\ UNCHANGED <<retries, total_buddies, total_guilds, members, buddies, guilds>>
    /\ UNCHANGED callVars
    /\ UNCHANGED gameVars
    /\ UNCHANGED netVars
    /\ UNCHANGED endVars
    /\ UNCHANGED runVars

\* A later page of plays arrives.
PlaysNextPage(b) ==
    /\ AwaitingResponse
    /\ op = "plays"
    /\ ~FirstFetch
    /\ b.seen => CanRepeat(b.n, plays)
    /\ consumed' = consumed + 1
    /\ LET len == AddPlays(plays, b.n)
       IN  /\ plays' = len
           /\ honours' = (honours /\ ~b.seen /\ b.n = HonestItems(pageSize, count, page))
           /\ twice' = (twice \/ b.seen)
           /\ guard' = ~AddedPlays(b.n)
           /\ truncLog' = TruncationLogged("plays", guard')
           /\ IF ~AddedPlays(b.n)
              THEN /\ Return("returned")
                   /\ UNCHANGED <<page, progressLog>>
              ELSE /\ page' = NextPage(page)
                   /\ progressLog' = CallProgress(progressLog, len, count)
                   /\ IF PlaysMore(len, count)
                      THEN BeginFetch(page', LaterFetchRetries("plays", retries))
                           /\ UNCHANGED <<outcome, err>>
                      ELSE Return("returned")
    /\ UNCHANGED <<retries, count, total_buddies, total_guilds, members, buddies, guilds,
                   pageSize, noTotal>>
    /\ UNCHANGED callVars
    /\ UNCHANGED gameVars
    /\ UNCHANGED runVars
    /\ UNCHANGED netVars

\* One step of a paginated operation. A response is matched against the
\* bodies of the operation and the fetch that wait for it: the guards of the
\* actions stand ahead of the choice of a body.
Next ==
    \/ pc = "idle" /\ \E o \in Ops, p \in BOOLEAN : \E a \in ArgsOf(o) : Call(o, p, a)
    \/ RespProcessing
    \/ RespTimeout
    \/ RespNonXML
    \/ op = "guild" /\ FirstFetch /\ \E b \in Page1Bodies : GuildFirstPage(b)
    \/ op = "guild" /\ ~FirstFetch /\ \E b \in LaterBodies : GuildNextPage(b)
    \/ op = "user" /\ FirstFetch /\ \E b \in UserPage1Bodies : UserFirstPage(b)
    \/ op = "user" /\ ~FirstFetch /\ \E b \in UserLaterBodies : UserNextPage(b)
    \/ op = "plays" /\ FirstFetch /\ \E b \in PlaysPage1Bodies : PlaysFirstPage(b)
    \/ op = "plays" /\ ~FirstFetch /\ \E b \in LaterBodies : PlaysNextPage(b)

\* ------------------------------------------- hot_items, collection, search
\* The response of hot_items arrives: its items are returned.
HotItemsPage ==
    /\ AwaitingResponse
    /\ op = "hot_items"
    /\ consumed' = consumed + 1
    /\ Return("returned")
    /\ UNCHANGED <<retries, progressLog, pageSize, honours, noTotal>>
    /\ UNCHANGED aggVars
    /\ UNCHANGED callVars
    /\ UNCHANGED gameVars
    /\ UNCHANGED netVars
    /\ UNCHANGED endVars
    /\ UNCHANGED runVars

\* The response of collection: error is "it holds an error element".
CollectionBodies == [error : BOOLEAN]

\* The response of collection arrives.
CollectionPage(b) ==
    /\ AwaitingResponse
    /\ op = "collection"
    /\ consumed' = consumed + 1
    /\ IF b.error THEN Return("none") ELSE Return("returned")
    /\ UNCHANGED <<retries, progressLog, pageSize, honours, noTotal>>
    /\ UNCHANGED aggVars
    /\ UNCHANGED callVars
    /\ UNCHANGED gameVars
    /\ UNCHANGED netVars
    /\ UNCHANGED endVars
    /\ UNCHANGED runVars

\* An item element of a search response: has_year is "it carries a
\* yearpublished the parser reads", and year is what it reads.
SearchItems ==
    {[has_year |-> FALSE, year |-> 0]} \cup [has_year : {TRUE}, year : {-1, 1}]

\* The response of a search: its item elements, in order.
SearchBodies == UNION {[1..n -> SearchItems] : n \in 0..MaxMatches}

\* The year of the SearchResult made of item: the yearpublished read, and
\* the default, 0, if there is none.
YearOf(item) == IF item.has_year THEN item.year ELSE 0

\* The response of search arrives: the list of its items is returned.
SearchPage(b) ==
    /\ AwaitingResponse
    /\ op = "search"
    /\ consumed' = consumed + 1
    /\ matches' = Len(b)
    /\ res' = b
    /\ Return("returned")
    /\ UNCHANGED <<retries, progressLog, pageSize, honours, noTotal>>
    /\ UNCHANGED <<stage, game_data, game_none, chosen, fetching, answer>>
    /\ UNCHANGED aggVars
    /\ UNCHANGED callVars
    /\ UNCHANGED netVars
    /\ UNCHANGED endVars
    /\ UNCHANGED runVars

\* ----------------------------------------------- game, get_game_id, games
\* game(game_id=...) fetches a thing: same retries as every first fetch.
ThingFetch == BeginFetch(NoPage, FirstFetchRetries("game", retries))

\* The place of the first greatest of keys[best], keys[i], ..: Python's max.
RECURSIVE ScanMax(_, _, _)
ScanMax(keys, i, best) ==
    IF i > Len(keys)
    THEN best
    ELSE ScanMax(keys, i + 1, IF keys[i] > keys[best] THEN i ELSE best)

\* The place of the first smallest of keys[best], keys[i], ..: Python's min.
RECURSIVE ScanMin(_, _, _)
ScanMin(keys, i, best) ==
    IF i > Len(keys)
    THEN best
    ELSE ScanMin(keys, i + 1, IF keys[i] < keys[best] THEN i ELSE best)

\* key=lambda x: x.year if x.year is not None else -300000, for every
\* result of the search; has is "x.year is not None".
RecentKey(has, year) == IF has THEN year ELSE NoYearKey

\* choose == "recent": the place in the results of the one max() returns.
\* The year of a result is never None: search puts YearOf into it.
MostRecent(results) ==
    ScanMax([i \in 1..Len(results) |-> RecentKey(TRUE, YearOf(results[i]))], 2, 1)

\* The record game() returned None instead of.
NoRecord == [found |-> FALSE, ranked |-> FALSE, rank |-> 0]

\* The ranks a record may carry.
Ranks == {1, 2}

\* The records game() returns: ranked is "boardgame_rank is not None".
Records ==
    {[found |-> TRUE, ranked |-> FALSE, rank |-> 0]}
        \cup [found : {TRUE}, ranked : {TRUE}, rank : Ranks]

\* key=lambda x: x.boardgame_rank if x.boardgame_rank is not None else 10000000000
RankKey(r) == IF r.ranked THEN r.rank ELSE NoRankKey

\* choose == "best-rank": the place in game_data of the one min() returns.
BestRanked(data) == ScanMin([i \in 1..Len(data) |-> RankKey(data[i])], 2, 1)

\* Variant: the record of the first match is fetched over and over.
NextMatch_First(len) == 1

\* The place in res of the match whose record is fetched when len records
\* are in game_data: the list comprehension goes through res in order.
NextMatch(len) == len + 1

\* The id of the game is the one of match i: get_game_id returns it, game
\* fetches its record.
GameIdKnown(i) ==
    /\ chosen' = i
    /\ IF op = "get_game_id"
       THEN Return("returned") /\ UNCHANGED <<stage, fetching>>
       ELSE ThingFetch /\ stage' = "thing" /\ fetching' = i /\ UNCHANGED <<outcome, err>>

\* The record of the next match is fetched (st is "rank" for best-rank and
\* "each" for games), len records being there.
FetchRecord(st, len) ==
    /\ ThingFetch
    /\ stage' = st
    /\ fetching' = NextMatch(len)
    /\ UNCHANGED <<outcome, err, chosen>>

\* best-rank: game_data is now data, of the n matches of res.  The next
\* match is fetched; after the last one min() reads x.boardgame_rank of
\* every entry, which a None does not have.
RankCollected(data, n) ==
    IF Len(data) < n
    THEN FetchRecord("rank", Len(data))
    ELSE IF \E i \in 1..Len(data) : ~data[i].found
    THEN Crash("attribute") /\ UNCHANGED <<stage, chosen, fetching>>
    ELSE GameIdKnown(BestRanked(data))

\* games: the list is now data, of the n matches the search returned.  The
\* next match is fetched; after the last one the list is returned.
GamesCollected(data, n) ==
    IF Len(data) < n
    THEN FetchRecord("each", Len(data))
    ELSE Return("returned") /\ UNCHANGED <<stage, chosen, fetching>>

\* The response of the search of a lookup arrives.
GameSearchPage(b) ==
    /\ AwaitingResponse
    /\ op \in LookupOps
    /\ stage = "search"
    /\ consumed' = consumed + 1
    /\ matches' = Len(b)
    /\ res' = b
    /\ answer' = "items"
    /\ IF op = "games"
       THEN GamesCollected(<<>>, Len(b))
       ELSE IF Len(b) = 0
       THEN Return("none") /\ UNCHANGED <<stage, chosen, fetching>>
       ELSE IF args.choose = "best-rank"
       THEN FetchRecord("rank", 0)
       ELSE IF args.choose = "recent"
       THEN GameIdKnown(MostRecent(b))
       ELSE GameIdKnown(1)
    /\ UNCHANGED <<retries, progressLog, pageSize, honours, noTotal>>
    /\ UNCHANGED <<game_data, game_none>>
    /\ UNCHANGED aggVars
    /\ UNCHANGED callVars
    /\ UNCHANGED netVars
    /\ UNCHANGED endVars
    /\ UNCHANGED runVars

\* The handler around a fetch catches e, or lets it through.
Caught(e) ==
    LET out == FirstPageHandler(e)
    IN  /\ pc' = "done"
        /\ outcome' = out
        /\ err' = IF out = "raised" THEN e ELSE "none"

\* The body of the search of a lookup is not XML: search returns None.
\* _get_game_id returns None for it, and so does game; games iterates over
\* it, which is a TypeError.
GameSearchNonXML ==
    /\ AwaitingResponse
    /\ op \in LookupOps
    /\ stage = "search"
    /\ attempts' = attempts + 1
    /\ answer' = "nonxml"
    /\ IF op = "games" THEN Raise("type") ELSE Caught("nonxml")
    /\ UNCHANGED <<retries, retr, delays, timeouts, processing, requests>>
    /\ UNCHANGED <<stage, matches, game_data, game_none, res, chosen, fetching>>
    /\ UNCHANGED callVars
    /\ UNCHANGED aggVars
    /\ UNCHANGED histVars
    /\ UNCHANGED netVars
    /\ UNCHANGED endVars
    /\ UNCHANGED runVars

\* The response to the fetch of a thing: no item element, an item that is
\* no board game, or a board game and the rank of its record.
ThingBodies ==
    [kind : {"noitem", "other"}, ranked : {FALSE}, rank : {0}]
        \cup [kind : {"game"}, ranked : {FALSE}, rank : {0}]
        \cup [kind : {"game"}, ranked : {TRUE}, rank : Ranks]

\* Variant: every response without a board game is an invalid request.
ItemError_Invalid(kind) == "invalid"

\* What game raises for a response without a board game: BoardGameGeekAPIError
\* if there is no item, BoardGameGeekError if the item is no board game.
ItemError(kind) == IF kind = "noitem" THEN "api" ELSE "invalid"

\* The response to the fetch of a thing arrives.
ThingPage(b) ==
    /\ AwaitingResponse
    /\ op \in LookupOps
    /\ stage \in {"rank", "thing", "each"}
    /\ consumed' = consumed + 1
    /\ answer' = b.kind
    /\ IF b.kind # "game"
       THEN /\ Crash(ItemError(b.kind))
            /\ UNCHANGED <<stage, game_data, chosen, fetching>>
       ELSE IF stage = "thing"
       THEN /\ Return("returned")
            /\ UNCHANGED <<stage, game_data, chosen, fetching>>
       ELSE /\ game_data' = Append(game_data, [found |-> TRUE, ranked |-> b.ranked,
                                                rank |-> b.rank])
            /\ IF stage = "rank"
               THEN RankCollected(game_data', matches)
               ELSE GamesCollected(game_data', matches)
    /\ UNCHANGED <<matches, game_none, res>>
    /\ UNCHANGED <<retries, progressLog, pageSize, honours, noTotal>>
    /\ UNCHANGED aggVars
    /\ UNCHANGED callVars
    /\ UNCHANGED netVars
    /\ UNCHANGED endVars
    /\ UNCHANGED runVars

\* The body of a thing is not XML: game returns None, which best-rank puts
\* into game_data and games into its list.
ThingNonXML ==
    /\ AwaitingResponse
    /\ op \in LookupOps
    /\ stage \in {"rank", "thing", "each"}
    /\ answer' = "nonxml"
    /\ IF stage = "thing"
       THEN /\ Caught("nonxml")
            /\ attempts' = attempts + 1
            /\ UNCHANGED <<retr, delays, timeouts, processing, requests>>
            /\ UNCHANGED <<stage, game_data, game_none, chosen, fetching>>
       ELSE /\ game_data' = Append(game_data, NoRecord)
            /\ game_none' = TRUE
            /\ IF stage = "rank"
               THEN RankCollected(game_data', matches)
               ELSE GamesCollected(game_data', matches)
    /\ UNCHANGED <<matches, res>>
    /\ UNCHANGED retries
    /\ UNCHANGED aggVars
    /\ UNCHANGED callVars
    /\ UNCHANGED histVars
    /\ UNCHANGED netVars
    /\ UNCHANGED endVars
    /\ UNCHANGED runVars

\* Every operation of the client.
ApiNext ==
    \/ Next
    \/ pc = "idle" /\ \E o \in SingleOps \cup LookupOps : \E a \in ArgsOf(o) : Call(o, FALSE, a)
    \/ HotItemsPage
    \/ op = "collection" /\ \E b \in CollectionBodies : CollectionPage(b)
    \/ op = "search" /\ \E b \in SearchBodies : SearchPage(b)
    \/ stage = "search" /\ \E b \in SearchBodies : GameSearchPage(b)
    \/ GameSearchNonXML
    \/ stage \in {"rank", "thing", "each"} /\ \E b \in ThingBodies : ThingPage(b)
    \/ ThingNonXML

ApiSpec == Init /\ [][ApiNext]_vars

\* ------------------------------------- requests_session.get, thread by thread
\* A step of a thread is one of: the cache lookup of a GET it asks the
\* session for (which answers it on a hit), the acquisition of the limiter
\* followed by the sending of the GET, and the arrival of the answer.  The
\* cache session and the limiting adapter (boardgamegeek/utils.py) are
\* modelled from the specification.

\* Variant: no cache session is ever made.
CacheConfigured_Never(c) == FALSE

\* "if cache:": the session is a cache session.
CacheConfigured(c) == c.uri # ""

\* Variant: the adapter allows one request more per window.
LimiterRpm_PlusOne(r) == r + 1

\* RateLimitingAdapter(rpm=requests_per_minute)
LimiterRpm(r) == r

\* Variant: an adapter of its own for every calling thread.
AdapterOf_PerCaller(c) == c

\* The adapter a request of caller c goes through: the one adapter mounted
\* on the session of the client.
AdapterOf(c) == 1

\* Variant: the identity of a request leaves its parameters out.
CacheKey_UrlOnly(k) == "k1"

\* The identity under which the cache holds request k.
CacheKey(k) == k

\* Variant: the limiter is asked before the cache, hit or not.
AfterLookup_Always(hit) == "acquire"

\* Where a GET goes after the cache lookup: a hit is answered by the cache
\* and the caller goes on, a miss goes to the adapter.
AfterLookup(hit) == IF hit THEN "idle" ELSE "acquire"

\* The timestamps of ts that lie in the window ending at t.
InWindow(ts, t) == SelectSeq(ts, LAMBDA x : t - x < Window)

\* acquire() lets a request pass at t: fewer than r timestamps are in the window.
Admits(ts, t, r) == Len(InWindow(ts, t)) < r

\* Entry e of the cache is there and has not expired at t.
Fresh(e, t) == e # NoEntry /\ t < e.expires

\* Time since the last answer for request k came from the network.
Age(k) == IF stored[k] = Never THEN Never ELSE now - stored[k]

\* Time passes.
Tick ==
    /\ now < MaxTime
    /\ now' = now + 1
    /\ UNCHANGED <<rpm, cache, stamps, store, cpc, ckey, admitted, stored, netCalls,
                   gets, hits, last, result>>
    /\ UNCHANGED <<retries, requests>>
    /\ UNCHANGED <<ctlVars, callVars, transportVars, aggVars, histVars, endVars, runVars,
                   gameVars>>

\* Caller c asks the session for request k: the cache, if there is one, is
\* looked up; a hit is the answer, and an entry found expired is evicted.
Get(c, k) ==
    /\ cpc[c] = "idle"
    /\ gets < MaxGets
    /\ gets' = gets + 1
    /\ LET e == store[CacheKey(k)]
           hit == CacheConfigured(cache) /\ Fresh(e, now)
       IN  /\ cpc' = [cpc EXCEPT ![c] = AfterLookup(hit)]
           /\ ckey' = [ckey EXCEPT ![c] = IF cpc'[c] = "idle" THEN "" ELSE k]
           /\ last' = [key |-> k, hit |-> hit, age |-> Age(k)]
           /\ hits' = IF hit THEN hits + 1 ELSE hits
           /\ result' = IF hit THEN [key |-> k, body |-> e.body, hit |-> TRUE] ELSE result
           /\ store' = IF hit THEN store ELSE [store EXCEPT ![CacheKey(k)] = NoEntry]
    /\ UNCHANGED <<now, rpm, cache, stamps, admitted, stored, netCalls>>
    /\ UNCHANGED <<retries, requests>>
    /\ UNCHANGED <<ctlVars, callVars, transportVars, aggVars, histVars, endVars, runVars,
                   gameVars>>

\* The limiter of the adapter admits the request of caller c, records its
\* timestamp, and the GET is sent.  Until it does, the caller is blocked.
Acquire(c) ==
    /\ cpc[c] = "acquire"
    /\ LET a == AdapterOf(c)
       IN  /\ Admits(stamps[a], now, LimiterRpm(rpm))
           /\ stamps' = [stamps EXCEPT ![a] = Append(InWindow(stamps[a], now), now)]
    /\ admitted' = Append(admitted, now)
    /\ netCalls' = netCalls + 1
    /\ cpc' = [cpc EXCEPT ![c] = "http"]
    /\ UNCHANGED <<now, rpm, cache, store, ckey, stored, gets, hits, last, result>>
    /\ UNCHANGED <<retries, requests>>
    /\ UNCHANGED <<ctlVars, callVars, transportVars, aggVars, histVars, endVars, runVars,
                   gameVars>>

\* The answer to the GET of caller c arrives and is returned to it: a
\* success (ok), which a cache session stores with its ttl, or a 202 or a
\* timeout, which it does not.
Respond(c, ok) ==
    /\ cpc[c] = "http"
    /\ cpc' = [cpc EXCEPT ![c] = "idle"]
    /\ ckey' = [ckey EXCEPT ![c] = ""]
    /\ LET k == ckey[c]
       IN  IF ok
           THEN /\ result' = [key |-> k, body |-> Content(k), hit |-> FALSE]
                /\ stored' = [stored EXCEPT ![k] = now]
                /\ store' = IF CacheConfigured(cache)
                            THEN [store EXCEPT ![CacheKey(k)] =
                                     [body |-> Content(k), expires |-> now + cache.ttl]]
                            ELSE store
           ELSE /\ result' = [key |-> k, body |-> "transient", hit |-> FALSE]
                /\ UNCHANGED <<stored, store>>
    /\ UNCHANGED <<now, rpm, cache, stamps, admitted, netCalls, gets, hits, last>>
    /\ UNCHANGED <<retries, requests>>
    /\ UNCHANGED <<ctlVars, callVars, transportVars, aggVars, histVars, endVars, runVars,
                   gameVars>>

NetNext ==
    \/ Tick
    \/ \E c \in Callers, k \in Keys : Get(c, k)
    \/ \E c \in Callers : Acquire(c)
    \/ \E c \in Callers, ok \in BOOLEAN : Respond(c, ok)

NetSpec == NetInit /\ [][NetNext]_vars

\* ------------------------------------------- the same operation, called twice
\* A server that answers every call alike: p1 is its first page, p2 its
\* second page and rest every page after the second.
Servers ==
    [op : {"guild"}, p1 : Page1Bodies,
     p2 : {b \in LaterBodies : ~b.seen /\ b.total = 0},
     rest : {b \in LaterBodies : ~b.seen /\ b.total = 0}]
    \cup [op : {"plays"}, p1 : PlaysPage1Bodies,
          p2 : {b \in LaterBodies : ~b.seen /\ b.total = 0},
          rest : {b \in LaterBodies : ~b.seen /\ b.total = 0}]
    \cup [op : {"user"}, p1 : {b \in UserPage1Bodies : b.tb # NoTotal /\ b.tg # NoTotal},
          p2 : {b \in UserLaterBodies : ~b.seen},
          rest : {b \in UserLaterBodies : ~b.seen}]

\* The page the server sends when asked for page p > 1.
Served(p) == IF p = 2 THEN server.p2 ELSE server.rest

\* What a call has given: its outcome, the lengths of its lists, the calls
\* it made to the progress callback and the number of its fetches.
RunSummary ==
    [outcome |-> outcome, acc |-> <<members, buddies, guilds, plays>>,
     log |-> progressLog, fetches |-> Len(requests)]

\* The operation is called a second time on the same client with the same
\* arguments: what the first call gave is kept aside, and the new call
\* issues its first fetch.  Nothing of the client has changed in between;
\* the lists of the first call are what the caller was handed.
CallAgain ==
    /\ pc = "done"
    /\ run = 1
    /\ run' = 2
    /\ first' = RunSummary
    /\ requests' = <<[page |-> NoPage, retries |-> FirstFetchRetries(op, retries)]>>
    /\ retr' = FirstFetchRetries(op, retries)
    /\ attempts' = 0
    /\ delays' = 0
    /\ timeouts' = 0
    /\ processing' = 0
    /\ pc' = "http"
    /\ outcome' = "running"
    /\ err' = "none"
    /\ consumed' = 0
    /\ progressLog' = <<>>
    /\ guard' = FALSE
    /\ truncLog' = FALSE
    /\ twice' = FALSE
    /\ UNCHANGED <<retries, server, pageSize, honours, noTotal>>
    /\ UNCHANGED callVars
    /\ UNCHANGED aggVars
    /\ UNCHANGED gameVars
    /\ UNCHANGED netVars

\* A client and a server that answers every call alike.
TwiceInit ==
    /\ retries = MaxRetries
    /\ NotCalled
    /\ rpm = MaxRpm
    /\ cache = NoCache
    /\ SessionIdle
    /\ server \in Servers

\* The operation is called, with a progress callback, and called again when
\* it is over; every page is the one the server sends for its number.
TwiceNext ==
    \/ pc = "idle" /\ \E a \in ArgsOf(server.op) :
                         ~Rejects(server.op, a) /\ Call(server.op, TRUE, a)
    \/ op = "guild" /\ FirstFetch /\ GuildFirstPage(server.p1)
    \/ op = "guild" /\ ~FirstFetch /\ GuildNextPage(Served(page))
    \/ op = "user" /\ FirstFetch /\ UserFirstPage(server.p1)
    \/ op = "user" /\ ~FirstFetch /\ UserNextPage(Served(page))
    \/ op = "plays" /\ FirstFetch /\ PlaysFirstPage(server.p1)
    \/ op = "plays" /\ ~FirstFetch /\ PlaysNextPage(Served(page))
    \/ CallAgain

TwiceSpec == TwiceInit /\ [][TwiceNext]_vars

\* Every HTTP attempt is answered, and the operation runs on when it is.
FairSpec == Init /\ [][Next]_vars /\ WF_vars(Next)

Spec == Init /\ [][Next]_vars

\* ================================================================= claims
Last(seq) == seq[Len(seq)]
Ceil(a, b) == (a + b - 1) \div b

\* The lengths of the lists the operation has accumulated.
Accumulated == <<members, buddies, guilds, plays>>

\* The retry budget of the current (or last) fetch.
Budget == Last(requests).retries

\* C1: when a page after the first adds no item to the result, the operation
\* returns at once with what it had accumulated, and fetches nothing more,
\* whatever the expected total.
C1_ZeroPageStops ==
    [][(consumed >= 1 /\ consumed' = consumed + 1 /\ Accumulated' = Accumulated)
          => (pc' = "done" /\ outcome' = "returned" /\ requests' = requests)]_vars

\* guild stopped on an empty page 2 with at least two members still expected.
C1_Witness ==
    /\ op = "guild"
    /\ pc = "done"
    /\ outcome = "returned"
    /\ consumed = 2
    /\ Len(requests) = 2
    /\ members >= 1
    /\ members + 2 <= count

\* The fetch of a later page has failed: the operation is over and the last
\* fetch it issued, not the first, was never consumed.
LaterFetchFailed == pc = "done" /\ Len(requests) >= 2 /\ consumed < Len(requests)

C3_Terminates == <>(pc = "done")

\* guild ended after three pages although the server never served the total.
C3_Witness ==
    /\ op = "guild"
    /\ pc = "done"
    /\ outcome = "returned"
    /\ consumed >= 3
    /\ members < count

\* C4 as stated: the progress callback is called once after every page
\* fetched, the last one included.
C4_ProgressPerPage ==
    (progress /\ outcome \in {"running", "returned"}) => Len(progressLog) = consumed

\* C5: the current value passed to the progress callback never decreases and
\* the total passed is the same in every call.
C5_ProgressMonotone ==
    \A i, j \in 1..Len(progressLog) :
        i < j => /\ progressLog[i][1] <= progressLog[j][1]
                 /\ progressLog[i][2] = progressLog[j][2]

\* Three calls with a growing current value.
C5_Witness ==
    /\ Len(progressLog) >= 3
    /\ progressLog[1][1] < progressLog[2][1]
    /\ progressLog[2][1] < progressLog[3][1]

\* C6: the first request asks for page 1 (no page parameter), the i-th for
\* page i, and a request is in flight only when every earlier response has
\* been consumed.
C6_PagesInOrder ==
    /\ \A i \in 1..Len(requests) :
          /\ PageOf(requests[i].page) = i
          /\ (i = 1 <=> requests[i].page = NoPage)
    /\ (pc = "http" => consumed = Len(requests) - 1)
    /\ consumed <= Len(requests)
    /\ Len(requests) <= consumed + 1

\* The request for page 3 is in flight.
C6_Witness ==
    /\ pc = "http"
    /\ Len(requests) = 3
    /\ Last(requests).page = 3

\* The number of items the returned result holds, for a paginated total.
Complete ==
    CASE op = "guild" -> members = count
      [] op = "plays" -> plays = count
      [] op = "user" -> buddies = total_buddies /\ guilds = total_guilds
      [] OTHER -> FALSE

\* C7: against a server that paginates with page size S a total of T > 0,
\* the operation makes ceil(T/S) fetches, reports (min(k*S, T), T) after the
\* k-th, and returns T items.
C7_HonouredPagination ==
    (honours /\ pc = "done" /\ outcome = "returned" /\ count > 0) =>
        LET k == Ceil(count, pageSize)
        IN  /\ Len(requests) = k
            /\ consumed = k
            /\ progress =>
                  progressLog = [i \in 1..k |-> <<Min(i * pageSize, count), count>>]
            /\ Complete

\* T = 3 and S = 2: two fetches, progress (2,3),(3,3), three items.
C7_Witness ==
    /\ honours
    /\ pc = "done"
    /\ outcome = "returned"
    /\ count = 3
    /\ pageSize = 2
    /\ Len(requests) = 2
    /\ progressLog = <<<<2, 3>>, <<3, 3>>>>

\* C8 as stated: with an expected total of 0 on page 1 the operation makes
\* one fetch, calls the callback once with (0, 0) and returns nothing.
C8_ZeroTotal ==
    (pc = "done" /\ outcome = "returned" /\ count = 0) =>
        /\ Len(requests) = 1
        /\ (progress => progressLog = <<<<0, 0>>>>)
        /\ Accumulated = <<0, 0, 0, 0>>

\* C9: a fetch answered only by HTTP 202 makes exactly as many attempts as
\* its retry budget (the client's retries, which guild, plays and the first
\* fetch of user pass on), sleeps once between two attempts, then raises the
\* retry error.
C9_RetryBound ==
    (Len(requests) >= 1 /\ processing = attempts) =>
        /\ (op # "user" \/ FirstFetch) => Budget = retries
        /\ pc = "http" => (attempts < Budget /\ delays = attempts)
        /\ (pc = "done" /\ attempts >= 1) =>
              /\ attempts = Budget
              /\ delays = Budget - 1
              /\ outcome = "raised"
              /\ err = "retry"

\* Two 202 answers used up a budget of 2 after one sleep.
C9_Witness ==
    /\ pc = "done"
    /\ err = "retry"
    /\ retries = 2
    /\ Budget = 2
    /\ processing = 2
    /\ attempts = 2
    /\ delays = 1

\* C10: a timeout spends one unit of the budget that 202 answers spend too;
\* the fetch goes on while budget is left and raises the timeout error only
\* when none is.
C10_TimeoutSharesBudget ==
    Len(requests) >= 1 =>
        /\ (op # "user" \/ FirstFetch) => Budget = retries
        /\ timeouts + processing <= Budget
        /\ (pc = "http" /\ timeouts >= 1) =>
              (retr = Budget - attempts /\ retr > 0 /\ outcome = "running")
        /\ err = "timeout" =>
              (attempts = Budget /\ timeouts >= 1 /\ outcome = "raised")

\* A 202 answer then a timeout used up a budget of 2.
C10_Witness ==
    /\ pc = "done"
    /\ err = "timeout"
    /\ Budget = 2
    /\ processing = 1
    /\ timeouts = 1

\* The admissions, among the first i, that lie in the window ending at the
\* i-th admission (the i-th included).
AdmittedInWindow(i) == {j \in 1..i : admitted[i] - admitted[j] < Window}

\* C11: whatever threads use the session and however their steps interleave,
\* at every instant at which the limiter admits a request, the requests
\* admitted in the window ending then, that one included, are at most rpm.
C11_BudgetInvariant ==
    \A i \in 1..Len(admitted) : Cardinality(AdmittedInWindow(i)) <= rpm

\* With rpm = 1 two threads have a GET in flight at once: the second was
\* blocked until the window of the first had passed.
C11_Witness ==
    /\ rpm = 1
    /\ \A c \in Callers : cpc[c] = "http"
    /\ Len(admitted) = NumCallers
    /\ admitted[2] - admitted[1] = Window

C13_CacheTtl ==
    /\ last # NoLookup =>
          (last.hit <=> (cache.uri # "" /\ last.age # Never /\ last.age < cache.ttl))
    /\ netCalls + hits <= gets
    /\ cache.uri # "" =>
          \A k \in Keys :
              store[k] # NoEntry =>
                  store[k] = [body |-> Content(k), expires |-> stored[k] + cache.ttl]

\* Request k1 was fetched, answered once by the cache, asked for again when
\* the entry had expired, and fetched again.
C13_Witness ==
    /\ cache.uri # ""
    /\ gets = 3
    /\ hits = 1
    /\ netCalls = 2
    /\ stored["k2"] = Never
    /\ last.key = "k1"
    /\ ~last.hit
    /\ last.age >= cache.ttl
    /\ result = [key |-> "k1", body |-> Content("k1"), hit |-> FALSE]
    /\ store["k1"].expires = stored["k1"] + cache.ttl
    /\ stored["k1"] >= cache.ttl

\* C14: a GET the cache answers acquires no limiter and sends nothing: the
\* recorded timestamps are left as they are and the caller is not held up;
\* a limiter is acquired only by a caller whose lookup missed, in the step
\* that sends its GET.
C14_HitSkipsLimiter ==
    [][/\ hits' = hits + 1 =>
             (stamps' = stamps /\ admitted' = admitted /\ netCalls' = netCalls /\ cpc' = cpc)
       /\ (stamps' # stamps \/ admitted' # admitted \/ netCalls' # netCalls) =>
             /\ netCalls + hits < gets
             /\ netCalls' = netCalls + 1
             /\ admitted' = Append(admitted, now)
             /\ \E c \in Callers : cpc[c] = "acquire" /\ cpc'[c] = "http"]_vars

\* Two GETs of the same request cost one acquisition and one HTTP GET.
C14_Witness ==
    /\ gets = 2
    /\ hits = 1
    /\ result.hit
    /\ netCalls = 1
    /\ Len(admitted) = 1
    /\ Len(stamps[1]) = 1

\* C15: with a cache or without one, the session answers a request with what
\* the server answers it with (or with the 202 or timeout the network gave,
\* which no cache ever returns).
C15_CacheAdvisory ==
    result # NoResult =>
        \/ result.body = Content(result.key)
        \/ ~result.hit /\ result.body = "transient"

\* The cache holds two requests and answers the second one with its own body.
C15_Witness ==
    /\ store["k1"] # NoEntry
    /\ store["k2"] # NoEntry
    /\ netCalls = 2
    /\ result = [key |-> "k2", body |-> Content("k2"), hit |-> TRUE]

\* The call was made with arguments the operation is to refuse: guild with an
\* id that is no integer, user or collection without a name, plays with
\* neither or both of name and game_id, with a game_id that is no integer or
\* with a min_date or max_date that is no date, hot_items with an unknown
\* type, search without a query or with an unknown type in the list, game
\* with neither name nor id, get_game_id with an unknown choose.
Malformed ==
    CASE op = "guild" -> args.guild_id = "nonint"
      [] op = "user" -> args.name = ""
      [] op = "collection" -> args.user_name = ""
      [] op = "plays" ->
            \/ (args.name = "" <=> args.game_id = "none")
            \/ args.game_id = "nonint"
            \/ args.min_date = "nondate"
            \/ args.max_date = "nondate"
      [] op = "hot_items" -> args.item_type \notin HOT_ITEM_CHOICES
      [] op = "search" ->
            \/ args.query = ""
            \/ /\ args.search_type.kind = "list"
               /\ \E i \in 1..Len(args.search_type.types) :
                     args.search_type.types[i] \notin SEARCH_TYPES
      [] op = "game" -> args.name = "" /\ args.game_id = "none"
      [] op = "get_game_id" -> args.choose \notin CHOICES
      [] OTHER -> FALSE

\* No fetch was issued: no HTTP request, no retry budget taken, no sleep.
NoFetch == requests = <<>> /\ attempts = 0 /\ retr = 0 /\ delays = 0

\* C16: an operation called with arguments it is to refuse raises
\* BoardGameGeekError, and whenever an operation refuses its arguments it has
\* issued no fetch: no HTTP request, no retry, no sleep.
C16_RejectsBeforeFetch ==
    /\ (pc # "idle" /\ Malformed) =>
          (pc = "done" /\ outcome = "raised" /\ err = "invalid" /\ NoFetch)
    /\ (err = "invalid" /\ consumed = 0) => NoFetch

\* plays was called with a name and a game id, and refused them.
C16_Witness ==
    /\ op = "plays"
    /\ args.name # ""
    /\ args.game_id = "int"
    /\ outcome = "raised"
    /\ err = "invalid"
    /\ requests = <<>>

\* The answer to the HTTP attempt is a body that is not XML: an attempt is
\* made, it is neither a 202 answer nor a timeout, and no page is consumed.
NonXMLAnswer ==
    /\ pc = "http"
    /\ attempts' = attempts + 1
    /\ processing' = processing
    /\ timeouts' = timeouts
    /\ consumed' = consumed

\* C17: when the first fetch of an operation is answered by a body that is
\* not XML, the operation returns None, raises nothing and fetches nothing
\* more.  The operations are guild, user, plays, hot_items, collection,
\* search, game and get_game_id.
C17_NonXMLIsNone ==
    [][(op \in Ops \cup SingleOps \cup GameOps /\ FirstFetch /\ NonXMLAnswer)
          => (pc' = "done" /\ outcome' = "none" /\ err' = "none" /\ requests' = requests)]_vars

\* The search game makes for a name was answered, after a 202, by a body
\* that is not XML, and game returned None.
C17_Witness ==
    /\ op = "game"
    /\ stage = "search"
    /\ pc = "done"
    /\ outcome = "none"
    /\ Len(requests) = 1
    /\ consumed = 0
    /\ processing = 1
    /\ attempts = 2

\* The first fetch has failed: every attempt it made was answered by 202 or
\* timed out, and the operation is over.
FirstFetchFailed ==
    /\ pc = "done"
    /\ Len(requests) = 1
    /\ consumed = 0
    /\ attempts >= 1
    /\ attempts = processing + timeouts

\* The errors get_parsed_xml_response raises.
TransportErrors == {"retry", "timeout", "nonxml"}

C19_AbsentTotalSinglePage ==
    noTotal =>
        /\ pc = "done"
        /\ outcome = "returned"
        /\ Len(requests) = 1
        /\ Max(members, Max(plays, Max(buddies, guilds))) = pageSize

\* C20 as stated: every fetch of an operation is made with the retry budget
\* of its first fetch; only the page differs.
C20_SameDescriptor ==
    \A i \in 1..Len(requests) :
        /\ requests[i].retries = requests[1].retries
        /\ (i > 1 => requests[i].page # requests[1].page)

\* The accumulated count the loop of the operation tests against the
\* expected total.
AccCount ==
    CASE op = "guild" -> members
      [] op = "plays" -> plays
      [] op = "user" -> Max(buddies, guilds)
      [] OTHER -> 0

\* The operation has returned its result.
Returned == op \in Ops /\ pc = "done" /\ outcome = "returned"

\* C21: whenever guild, user or plays returns with fewer accumulated items
\* than the expected total, a log record of the truncation has been written.
C21_TruncationObservable == (Returned /\ AccCount < count) => truncLog

\* C23: a page after the first is requested only when the accumulated count
\* is below the expected total, and a page that brings the count to the
\* total or beyond is the last one, full or not.
C23_FetchOnlyWhenShort ==
    [][/\ (op \in Ops /\ Len(requests) >= 1 /\ requests' # requests) =>
             (AccCount' < count' /\ Len(requests') = Len(requests) + 1)
       /\ (op \in Ops /\ consumed' # consumed /\ AccCount' >= count') =>
             (requests' = requests /\ pc' = "done")]_vars

\* plays returned after a full second page that took it beyond the total.
C23_Witness ==
    /\ op = "plays"
    /\ Returned
    /\ ~guard
    /\ Len(requests) = 2
    /\ pageSize = MaxPageItems
    /\ plays = 2 * MaxPageItems
    /\ plays > count

\* C27: when the operation returns its result and the loop was not left by
\* the break, every list holds at least the total page 1 reported for it.
C27_CompleteOnNormalReturn ==
    (Returned /\ ~guard) =>
        CASE op = "guild" -> members >= count
          [] op = "plays" -> plays >= count
          [] op = "user" -> buddies >= total_buddies /\ guilds >= total_guilds

\* The number of items the result holds.
ResultItems == members + buddies + guilds + plays

\* C28 as stated: the last call of the progress callback passes the number
\* of items of the returned result as current.
C28_Original ==
    (Returned /\ progress) => Last(progressLog)[1] = ResultItems

\* C28 amended: the last call of the progress callback passes the final
\* accumulated count as current: the number of members or plays, and for
\* user the larger of the numbers of buddies and of guilds.
C28_LastProgressIsFinal ==
    (Returned /\ progress) =>
        /\ Len(progressLog) >= 1
        /\ Last(progressLog)[1] = AccCount

\* user returned after two pages with more guilds than buddies, and the
\* callback was last told the number of guilds.
C28_Witness ==
    /\ op = "user"
    /\ Returned
    /\ progress
    /\ consumed = 2
    /\ buddies = 1
    /\ guilds > buddies
    /\ Last(progressLog) = <<guilds, count>>

\* C30: no item the server had sent before is added to the result again: a
\* page that only repeats items adds nothing.
C30_NoItemTwice == ~twice

\* C22: when the server answers every call alike, a second call of the same
\* operation on the same client ends as the first one did, with lists of
\* the same lengths, after the same number of fetches and the same calls
\* of the progress callback.
C22_Idempotent == (run = 2 /\ pc = "done") => first = RunSummary

\* guild was called twice and took three pages each time.
C22_Witness ==
    /\ op = "guild"
    /\ run = 2
    /\ pc = "done"
    /\ outcome = "returned"
    /\ consumed = 3
    /\ Len(first.log) = 3
    /\ members = count

\* ------------------------------------------------------------- C24 .. C29
\* get_game_id has returned an id.
IdReturned == op = "get_game_id" /\ pc = "done" /\ outcome = "returned"

\* Search result a is more recent than b: it has a greater year, or it has
\* a year and b has none.
MoreRecent(a, b) == a.has_year /\ (~b.has_year \/ a.year > b.year)

\* Record a is ranked better than b: it has a smaller rank, or it has a
\* rank and b has none.
BetterRanked(a, b) == a.ranked /\ (~b.ranked \/ a.rank < b.rank)

\* C24: get_game_id returns None when the search has no match, and
\* otherwise the id of the first match (first), of the earliest of the most
\* recent matches, one with no year being less recent than every one with a
\* year (recent), or of the earliest of the matches whose record is ranked
\* best, one with no rank being ranked worse than every ranked one
\* (best-rank).
C24_SelectsAsDocumented ==
    /\ (op = "get_game_id" /\ pc = "done" /\ answer = "items" /\ matches = 0)
          => outcome = "none"
    /\ IdReturned =>
          /\ chosen \in 1..matches
          /\ args.choose = "first" => chosen = 1
          /\ args.choose = "recent" =>
                /\ \A j \in 1..matches : ~MoreRecent(res[j], res[chosen])
                /\ \A j \in 1..(chosen - 1) : MoreRecent(res[chosen], res[j])
          /\ args.choose = "best-rank" =>
                /\ Len(game_data) = matches
                /\ \A j \in 1..matches : ~BetterRanked(game_data[j], game_data[chosen])
                /\ \A j \in 1..(chosen - 1) : BetterRanked(game_data[chosen], game_data[j])

\* C25: get_game_id with first or recent issues the search fetch and no
\* other; with best-rank it issues the search fetch and then one record
\* fetch for every match, the k-th of them for the k-th match, each after
\* the fetch before it was answered, and as many as there are matches when
\* it returns an id.
C25_SequentialFanOut ==
    op = "get_game_id" =>
        /\ args.choose \in {"first", "recent"} => Len(requests) <= 1
        /\ args.choose = "best-rank" =>
              /\ Len(requests) <= 1 + matches
              /\ stage = "rank" =>
                    /\ fetching = Len(requests) - 1
                    /\ Len(game_data) >= Len(requests) - 2
                    /\ pc = "http" => Len(game_data) = Len(requests) - 2
              /\ IdReturned => Len(requests) = 1 + matches

\* best-rank over as many matches as a search carries: the record of every
\* match was fetched, and the second match is ranked best.
C25_Witness ==
    /\ IdReturned
    /\ args.choose = "best-rank"
    /\ matches = MaxMatches
    /\ Len(requests) = 1 + MaxMatches
    /\ fetching = MaxMatches
    /\ chosen = 2

\* C26: game returns None for a record whose response is not XML, raises
\* BoardGameGeekAPIError for one without an item and BoardGameGeekError for
\* an item that is no board game; games returns one record for every match
\* of the search, and raises what the fetch of a record raises.
C26_RecordOutcomes ==
    /\ (op = "game" /\ pc = "done" /\ stage = "thing" /\ answer = "nonxml")
          => (outcome = "none" /\ err = "none")
    /\ (op \in LookupOps /\ pc = "done" /\ answer = "noitem")
          => (outcome = "raised" /\ err = "api")
    /\ (op \in LookupOps /\ pc = "done" /\ answer = "other")
          => (outcome = "raised" /\ err = "invalid")
    /\ (op = "games" /\ pc = "done" /\ outcome = "returned")
          => (Len(game_data) = matches /\ Len(requests) = 1 + matches)
    /\ (op = "games" /\ pc = "done" /\ Len(game_data) < matches) => outcome = "raised"

\* games had the record of the first match when the response for the second
\* one came without an item.
C26_Witness ==
    /\ op = "games"
    /\ pc = "done"
    /\ matches = 2
    /\ Len(game_data) = 1
    /\ answer = "noitem"
    /\ outcome = "raised"
    /\ err = "api"

\* The errors of the library.
LibraryErrors == {"none", "invalid", "api", "retry", "timeout", "nonxml"}

\* C29: when the search of a lookup is answered by a body that is not XML,
\* get_game_id and game return None and games returns an empty list; and a
\* lookup that got None for the record of a match ends with no error other
\* than those of the library.
C29_SearchNoneHandled ==
    /\ (op \in LookupOps /\ pc = "done" /\ stage = "search" /\ answer = "nonxml") =>
          /\ err = "none"
          /\ outcome = IF op = "games" THEN "returned" ELSE "none"
          /\ matches = 0
    /\ (op \in LookupOps /\ pc = "done" /\ game_none) => err \in LibraryErrors

====
